---- MODULE Spec2Model ----
(***************************************************************************)
(* School blogging REST backend: authentication (login, bearer tokens),    *)
(* role guards on the Teacher / Student / Post resources.                  *)
(*                                                                         *)
(* Every request is one action: the whole Express route, i.e. the          *)
(* middleware chain of the router line followed by the controller.  The    *)
(* last request and its response are kept in `res`, so that properties of  *)
(* responses can be stated over states.                                    *)
(***************************************************************************)
EXTENDS Integers, Sequences, FiniteSets, TLC

VARIABLES
    teachers,   \* the Teacher collection: a set of documents
    students,   \* the Student collection: a set of documents
    posts,      \* the Post collection: a set of documents
    nextId,     \* number of the next ObjectId generated for a principal
    nextPostId, \* number of the next ObjectId generated for a post
    issued,     \* tokens handed out by login so far (held by clients)
    now,        \* wall clock, in seconds
    res,        \* the last request and the response it received
    made        \* history: for each comment ObjectId generated, in order,
                \* the request that had the comment stored

vars == <<teachers, students, posts, nextId, nextPostId, issued, now, res,
          made>>

(***************************************************************************)
(* Bounds of the model.                                                    *)
(***************************************************************************)
MaxDocs == 2        \* ObjectIds generated for principals (the seed included)
MaxTokens == 1      \* tokens kept by clients
MaxTicks == 2       \* clock steps
MaxPosts == 2       \* ObjectIds generated for posts
MaxComments == 3    \* ObjectIds generated for comments

(***************************************************************************)
(* Program constants.                                                      *)
(***************************************************************************)
TokenLifetime == 86400                  \* expiresIn: '24h', in seconds
TickSeconds == TokenLifetime \div 2

JwtSecret == "process.env.JWT_SECRET"
SharedSecret == "secreta123"

Names == {"Ana", "Bia"}
Emails == {"a@escola.com", "b@escola.com"}
Passwords == {"senha123", "outra456"}

(***************************************************************************)
(* crypto.createHash('sha256').update(s).digest('hex')                     *)
(***************************************************************************)
Sha256Hex(s) ==
    CASE s = "secreta123" ->
            "a2c14f0d95025288efc137dd43cab40fc4d2a527330ca75ce233ee0e12f29541"
      [] s = "senhaerrada" ->
            "be228e33938e18d1e50c2e941f546d4c47f718ce8dd09a2f59683300b9711ece"
      [] OTHER -> "sha256:" \o s

(***************************************************************************)
(* bcrypt.hash(p, 10) and bcrypt.compare(p, hash).  The salt is not        *)
(* modelled: the hash of a password is a function of the password.         *)
(***************************************************************************)
BcryptTable == [p \in Passwords |-> "$2b$10$" \o p]

BcryptHash(p) == BcryptTable[p]

BcryptCompare(p, hash) == hash = BcryptHash(p)

(***************************************************************************)
(* ObjectId.toString() and the cast of a path parameter to an ObjectId.    *)
(***************************************************************************)
ObjectIdStrings == [n \in 1..(MaxDocs + MaxPosts + 2) |-> "id" \o ToString(n)]

IdToString(n) == ObjectIdStrings[n]

BadId == "xyz"                          \* a path parameter that is no ObjectId

(***************************************************************************)
(* jwt.sign(payload, secret, {expiresIn: '24h'}) and jwt.verify(token,     *)
(* secret).  A token is its payload (with iat and exp added by sign)       *)
(* together with the secret it was signed with; verify accepts it when     *)
(* that secret is the server's and the clock has not reached exp.          *)
(***************************************************************************)
JwtSign(payload, secret, at) ==
    [payload |-> [id |-> payload.id, email |-> payload.email,
                  role |-> payload.role, name |-> payload.name,
                  iat |-> at, exp |-> at + TokenLifetime],
     sig |-> secret]

JwtVerify(token, secret, at) ==
    /\ token.sig = secret
    /\ at < token.payload.exp

(***************************************************************************)
(* The Authorization header of a request.  `scheme` is the part before     *)
(* the first space (empty when the header is absent), `rest` the segments  *)
(* after it, so that header.split(' ')[1] is rest[1] when there is one.    *)
(***************************************************************************)
NoHeader == [scheme |-> <<>>, rest |-> <<>>]

BearerOnly == [scheme |-> <<"Bearer">>, rest |-> <<>>]

Bearer(t) == [scheme |-> <<"Bearer">>, rest |-> <<t>>]

\* req.headers.authorization?.split(' ')[1], as a sequence of 0 or 1 token
SplitToken(h) ==
    IF h.scheme = <<>> THEN <<>>
    ELSE IF Len(h.rest) >= 1 THEN <<h.rest[1]>> ELSE <<>>

\* A token signed by somebody who does not hold the server's secret.
Forge(t) == [payload |-> t.payload, sig |-> "forged"]

\* The headers a client may send: a token it was issued (expired or not),
\* or no header, a scheme without token, an issued token re-signed with
\* another secret.
TokenHeaders == {Bearer(t) : t \in issued}

OtherHeaders == {NoHeader, BearerOnly} \cup {Bearer(Forge(t)) : t \in issued}

(***************************************************************************)
(* The request being answered and its response.  `ran` lists the stages    *)
(* of the route that executed, `calls` the queries and library calls of    *)
(* login, `user` the claims attached to the request (req.user), `out` the  *)
(* JSON body.                                                              *)
(***************************************************************************)
Reply(route, req, status, message, ran, user, calls, out) ==
    [route |-> route, req |-> req, status |-> status, message |-> message,
     ran |-> ran, user |-> user, calls |-> calls, out |-> out]

NoRes == Reply("none", <<>>, 0, "", <<>>, <<>>, <<>>, <<>>)

(***************************************************************************)
(* middlewares/auth.js: the outcome of the token verifier on a header.     *)
(***************************************************************************)
auth_ChecksStore(h) ==
    LET token == SplitToken(h) IN
    IF token = <<>>
    THEN [next |-> FALSE, status |-> 401, message |-> "Token não fornecido.",
          user |-> <<>>]
    ELSE IF /\ JwtVerify(token[1], JwtSecret, now)
            /\ \E d \in teachers \cup students :
                  /\ IdToString(d.id) = token[1].payload.id
                  /\ d.name = token[1].payload.name
                  /\ d.isActive
         THEN [next |-> TRUE, status |-> 0, message |-> "",
               user |-> <<token[1].payload>>]
         ELSE [next |-> FALSE, status |-> 401, message |-> "Token inválido.",
               user |-> <<>>]

auth(h) ==
    LET token == SplitToken(h) IN
    IF token = <<>>
    THEN [next |-> FALSE, status |-> 401, message |-> "Token não fornecido.",
          user |-> <<>>]
    ELSE IF JwtVerify(token[1], JwtSecret, now)
         THEN [next |-> TRUE, status |-> 0, message |-> "",
               user |-> <<token[1].payload>>]
         ELSE [next |-> FALSE, status |-> 401, message |-> "Token inválido.",
               user |-> <<>>]

(***************************************************************************)
(* Model.findOne({email}) and Model.findById(id): the matching documents   *)
(* (none or one: emails are unique within a collection, ids everywhere).   *)
(***************************************************************************)
FindOne(coll, email) == {d \in coll : d.email = email}

FindById(coll, id) == {d \in coll : IdToString(d.id) = id}

TheDoc(found) == CHOOSE d \in found : TRUE

(***************************************************************************)
(* middlewares/validate.js after a list of express-validator rules: the    *)
(* request goes on only when no rule failed.                               *)
(***************************************************************************)
validate(errorsEmpty) ==
    IF errorsEmpty
    THEN [next |-> TRUE, status |-> 0, message |-> ""]
    ELSE [next |-> FALSE, status |-> 400, message |-> "Erro de validação."]

Has(body, field) == field \in DOMAIN body

\* .notEmpty() on a field (a missing field fails it as well)
NotEmpty(body, field) == Has(body, field) /\ body[field] # ""

\* loginValidationRules: email, senha and 'palavra-passe' are not empty
loginValidationRules(body) ==
    /\ NotEmpty(body, "email")
    /\ NotEmpty(body, "senha")
    /\ NotEmpty(body, "palavraPasse")

(***************************************************************************)
(* authController.login, given a body that passed validation.  `calls`     *)
(* lists, in order, the store queries and library calls the handler made.  *)
(***************************************************************************)
LoginOut(status, message, calls, out) ==
    [status |-> status, message |-> message, calls |-> calls, out |-> out]

\* Teacher.findOne({email}), then Student.findOne({email}) when the first
\* found nothing: the documents found (none or one), the role, the queries.
FindUsuario_StudentFirst(email) ==
    LET inTeacher == FindOne(teachers, email)
        inStudent == FindOne(students, email)
    IN IF inStudent # {}
       THEN [usuario |-> inStudent, role |-> "aluno",
             calls |-> <<"Student.findOne">>]
       ELSE [usuario |-> inTeacher, role |-> "professor",
             calls |-> <<"Student.findOne", "Teacher.findOne">>]

FindUsuario(email) ==
    LET inTeacher == FindOne(teachers, email)
        inStudent == FindOne(students, email)
    IN IF inTeacher # {}
       THEN [usuario |-> inTeacher, role |-> "professor",
             calls |-> <<"Teacher.findOne">>]
       ELSE [usuario |-> inStudent, role |-> "aluno",
             calls |-> <<"Teacher.findOne", "Student.findOne">>]

\* The checks on what was found: the 401 they end in, or status 0 and the
\* calls made when all of them pass.
CheckUsuario_PasswordFirst(body, f) ==
    IF f.usuario = {}
    THEN LoginOut(401, "Email ou senha incorretos.", f.calls, <<>>)
    ELSE LET usuario == TheDoc(f.usuario)
             calls == f.calls \o <<"bcrypt.compare">>
         IN IF ~BcryptCompare(body.senha, usuario.password)
            THEN LoginOut(401, "Email ou senha incorretos.", calls, <<>>)
            ELSE IF ~usuario.isActive
            THEN LoginOut(401, "Usuário inativo.", calls, <<>>)
            ELSE LoginOut(0, "", calls, <<>>)

CheckUsuario_NamesTheField(body, f) ==
    IF f.usuario = {}
    THEN LoginOut(401, "Email não cadastrado.", f.calls, <<>>)
    ELSE LET usuario == TheDoc(f.usuario) IN
         IF ~usuario.isActive
         THEN LoginOut(401, "Usuário inativo.", f.calls, <<>>)
         ELSE IF ~BcryptCompare(body.senha, usuario.password)
         THEN LoginOut(401, "Senha incorreta.",
                       f.calls \o <<"bcrypt.compare">>, <<>>)
         ELSE LoginOut(0, "", f.calls \o <<"bcrypt.compare">>, <<>>)

CheckUsuario(body, f) ==
    IF f.usuario = {}
    THEN LoginOut(401, "Email ou senha incorretos.", f.calls, <<>>)
    ELSE LET usuario == TheDoc(f.usuario) IN
         IF ~usuario.isActive
         THEN LoginOut(401, "Usuário inativo.", f.calls, <<>>)
         ELSE IF ~BcryptCompare(body.senha, usuario.password)
         THEN LoginOut(401, "Email ou senha incorretos.",
                       f.calls \o <<"bcrypt.compare">>, <<>>)
         ELSE LoginOut(0, "", f.calls \o <<"bcrypt.compare">>, <<>>)

\* jwt.sign of the claims and the 200 response.
IssueToken(usuario, role, calls) ==
    LET claims == [id |-> IdToString(usuario.id), email |-> usuario.email,
                   role |-> role, name |-> usuario.name]
        token == JwtSign(claims, JwtSecret, now)
    IN LoginOut(200, "Login realizado com sucesso.", calls \o <<"jwt.sign">>,
                <<[token |-> token,
                   user |-> [id |-> IdToString(usuario.id),
                             email |-> usuario.email,
                             name |-> usuario.name,
                             role |-> role]]>>)

login_LookupBeforeGate(body) ==
    LET palavraPasseCorreta == Sha256Hex(SharedSecret)
        f == FindUsuario(body.email)
        c == CheckUsuario(body, f)
    IN
    IF f.usuario = {} THEN c
    ELSE IF body.palavraPasse # palavraPasseCorreta
    THEN LoginOut(401, "Palavra-passe incorreta.", f.calls, <<>>)
    ELSE IF c.status # 0 THEN c
    ELSE IssueToken(TheDoc(f.usuario), f.role, c.calls)

login(body) ==
    LET palavraPasseCorreta == Sha256Hex(SharedSecret)
        f == FindUsuario(body.email)
        c == CheckUsuario(body, f)
    IN
    IF body.palavraPasse # palavraPasseCorreta
    THEN LoginOut(401, "Palavra-passe incorreta.", <<>>, <<>>)
    ELSE IF c.status # 0 THEN c
    ELSE IssueToken(TheDoc(f.usuario), f.role, c.calls)

\* The proofs a client may send: the plain secret, its SHA-256 digest, a
\* wrong word and its digest, nothing.
Proofs == {SharedSecret, Sha256Hex(SharedSecret), "senhaerrada",
           Sha256Hex("senhaerrada"), ""}

LoginBodies == [email : Emails, senha : Passwords, palavraPasse : Proofs]

(***************************************************************************)
(* POST /login: loginValidationRules, validate, login.  The client keeps   *)
(* the token of a successful login while it has room for one.              *)
(***************************************************************************)
LoginReq ==
    /\ res = NoRes
    /\ \E body \in LoginBodies :
      \E v \in {validate(loginValidationRules(body))}, o \in {login(body)} :
        /\ res' = IF ~v.next
                  THEN Reply("POST /login", body, v.status, v.message,
                             <<"validate">>, <<>>, <<>>, <<>>)
                  ELSE Reply("POST /login", body, o.status, o.message,
                             <<"validate", "handler">>, <<>>, o.calls, o.out)
        /\ issued' = IF v.next /\ o.status = 200
                        /\ Cardinality(issued) < MaxTokens
                     THEN issued \cup {o.out[1].token}
                     ELSE issued
        /\ UNCHANGED <<teachers, students, posts, nextId, nextPostId, now, made>>

\* A client discards a token it holds.
Forget ==
    /\ res = NoRes
    /\ \E t \in issued :
        /\ issued' = issued \ {t}
        /\ UNCHANGED <<teachers, students, posts, nextId, nextPostId, now, res,
                       made>>

\* The client receives the response; the next request can be sent.
Deliver ==
    /\ res # NoRes
    /\ res' = NoRes
    /\ UNCHANGED <<teachers, students, posts, nextId, nextPostId, issued, now,
                   made>>

\* Time passes between two exchanges.
Tick ==
    /\ res = NoRes
    /\ now < MaxTicks * TickSeconds
    /\ now' = now + TickSeconds
    /\ UNCHANGED <<teachers, students, posts, nextId, nextPostId, issued, res,
                   made>>

(***************************************************************************)
(* A principal document.  The Teacher and Student schemas hold the same    *)
(* paths: _id, name, email, password (the bcrypt hash), isActive.          *)
(***************************************************************************)
Principal(id, name, email, password, isActive) ==
    [id |-> id, name |-> name, email |-> email, password |-> password,
     isActive |-> isActive]

(***************************************************************************)
(* The store as a handler sees and leaves it, and the outcome of a         *)
(* handler: status, message, JSON body and the store after it.             *)
(***************************************************************************)
Db == [teachers |-> teachers, students |-> students, posts |-> posts,
       nextId |-> nextId, nextPostId |-> nextPostId, made |-> made]

Out(status, message, out, db) ==
    [status |-> status, message |-> message, out |-> out, db |-> db]

\* doc.toObject() with the password deleted / .select('-password')
KeepsPassword(d) == d

NoPassword(d) ==
    [id |-> d.id, name |-> d.name, email |-> d.email, isActive |-> d.isActive]

\* req.user?.role !== 'professor'
NotProfessor(user) == ~Has(user, "role") \/ user.role # "professor"

Forbidden403 == Out(403, "Acesso restrito a professores.", <<>>, Db)

(***************************************************************************)
(* teacherValidationRules / teacherUpdateValidationRules: name of at       *)
(* least 3 characters, an email, a password of at least 6 characters, a    *)
(* boolean isActive; on update every field is optional.                    *)
(***************************************************************************)
NameOk(body) == NotEmpty(body, "name") /\ Len(body.name) >= 3

EmailOk(body) == NotEmpty(body, "email") /\ body.email \in Emails

PasswordOk(body) == NotEmpty(body, "password") /\ Len(body.password) >= 6

teacherValidationRules(body) == NameOk(body) /\ EmailOk(body) /\ PasswordOk(body)

teacherUpdateValidationRules(body) ==
    /\ Has(body, "name") => NameOk(body)
    /\ Has(body, "email") => EmailOk(body)
    /\ Has(body, "password") => PasswordOk(body)

(***************************************************************************)
(* teacherController                                                       *)
(***************************************************************************)
getAllTeachers(user) ==
    IF NotProfessor(user) THEN Forbidden403
    ELSE Out(200, "", <<{NoPassword(d) : d \in teachers}>>, Db)

getTeacherById(user, id) ==
    IF NotProfessor(user) THEN Forbidden403
    ELSE IF id = BadId THEN Out(500, "Erro ao buscar professor.", <<>>, Db)
    ELSE LET teacher == FindById(teachers, id) IN
         IF teacher = {}
         THEN Out(404, "Professor não encontrado.", <<>>, Db)
         ELSE Out(200, "", <<NoPassword(TheDoc(teacher))>>, Db)

\* new Teacher({name, email, password, status, role}): isActive is not
\* passed and takes the schema default.
TeacherIsActiveDefault == TRUE

createTeacher(user, body) ==
    IF NotProfessor(user) THEN Forbidden403
    ELSE IF FindOne(teachers, body.email) # {}
    THEN Out(400, "Email já cadastrado.", <<>>, Db)
    ELSE LET newTeacher == Principal(nextId, body.name, body.email,
                                     BcryptHash(body.password),
                                     TeacherIsActiveDefault)
         IN Out(201, "", <<NoPassword(newTeacher)>>,
                [Db EXCEPT !.teachers = teachers \cup {newTeacher},
                           !.nextId = nextId + 1])

updateTeacher(user, id, body) ==
    IF NotProfessor(user) THEN Forbidden403
    ELSE IF id = BadId THEN Out(500, "Erro ao atualizar professor.", <<>>, Db)
    ELSE LET found == FindById(teachers, id) IN
         IF found = {}
         THEN Out(404, "Professor não encontrado.", <<>>, Db)
         ELSE LET teacher == TheDoc(found) IN
              IF /\ Has(body, "email")
                 /\ body.email # teacher.email
                 /\ FindOne(teachers, body.email) # {}
              THEN Out(400, "Email já cadastrado.", <<>>, Db)
              ELSE LET saved ==
                         [teacher EXCEPT
                            !.name = IF Has(body, "name")
                                     THEN body.name ELSE @,
                            !.email = IF Has(body, "email")
                                      THEN body.email ELSE @,
                            !.password = IF Has(body, "password")
                                         THEN BcryptHash(body.password)
                                         ELSE @]
                   IN Out(200, "", <<NoPassword(saved)>>,
                          [Db EXCEPT !.teachers =
                                (teachers \ {teacher}) \cup {saved}])

deleteTeacher_NoRoleGuard(user, id) ==
    IF id = BadId THEN Out(500, "Erro ao deletar professor.", <<>>, Db)
    ELSE LET deleted == FindById(teachers, id) IN
         IF deleted = {}
         THEN Out(404, "Professor não encontrado.", <<>>, Db)
         ELSE Out(200, "Professor excluído com sucesso.", <<>>,
                  [Db EXCEPT !.teachers = teachers \ deleted])

deleteTeacher(user, id) ==
    IF NotProfessor(user) THEN Forbidden403
    ELSE IF id = BadId THEN Out(500, "Erro ao deletar professor.", <<>>, Db)
    ELSE LET deleted == FindById(teachers, id) IN
         IF deleted = {}
         THEN Out(404, "Professor não encontrado.", <<>>, Db)
         ELSE Out(200, "Professor excluído com sucesso.", <<>>,
                  [Db EXCEPT !.teachers = teachers \ deleted])

(***************************************************************************)
(* studentValidationRules / studentUpdateValidationRules                   *)
(***************************************************************************)
studentValidationRules(body) == NameOk(body) /\ EmailOk(body) /\ PasswordOk(body)

studentUpdateValidationRules(body) ==
    /\ Has(body, "name") => NameOk(body)
    /\ Has(body, "email") => EmailOk(body)
    /\ Has(body, "password") => PasswordOk(body)

(***************************************************************************)
(* studentController                                                       *)
(***************************************************************************)
getAllStudents(user) ==
    IF NotProfessor(user) THEN Forbidden403
    ELSE Out(200, "", <<{NoPassword(d) : d \in students}>>, Db)

getStudentById(user, id) ==
    IF NotProfessor(user) THEN Forbidden403
    ELSE IF id = BadId THEN Out(500, "Erro ao buscar aluno.", <<>>, Db)
    ELSE LET student == FindById(students, id) IN
         IF student = {}
         THEN Out(404, "Aluno não encontrado.", <<>>, Db)
         ELSE Out(200, "", <<NoPassword(TheDoc(student))>>, Db)

createStudent(user, body) ==
    IF NotProfessor(user) THEN Forbidden403
    ELSE IF FindOne(students, body.email) # {}
    THEN Out(400, "Email já cadastrado.", <<>>, Db)
    ELSE IF FindOne(teachers, body.email) # {}
    THEN Out(400, "Email já cadastrado.", <<>>, Db)
    ELSE LET newStudent == Principal(nextId, body.name, body.email,
                                     BcryptHash(body.password),
                                     IF Has(body, "isActive")
                                     THEN body.isActive ELSE TRUE)
         IN Out(201, "", <<NoPassword(newStudent)>>,
                [Db EXCEPT !.students = students \cup {newStudent},
                           !.nextId = nextId + 1])

updateStudent_SavesBeforeEmailCheck(user, id, body) ==
    IF NotProfessor(user) THEN Forbidden403
    ELSE IF id = BadId THEN Out(500, "Erro ao atualizar aluno.", <<>>, Db)
    ELSE LET found == FindById(students, id) IN
         IF found = {}
         THEN Out(404, "Aluno não encontrado.", <<>>, Db)
         ELSE LET student == TheDoc(found)
                  saved ==
                      [student EXCEPT
                         !.name = IF Has(body, "name")
                                  THEN body.name ELSE @,
                         !.isActive = IF Has(body, "isActive")
                                      THEN body.isActive ELSE @,
                         !.password = IF Has(body, "password")
                                      THEN BcryptHash(body.password)
                                      ELSE @]
              IN
              IF Has(body, "email") /\ body.email # student.email
              THEN Out(400, "Email não pode ser alterado.", <<>>,
                       [Db EXCEPT !.students =
                             (students \ {student}) \cup {saved}])
              ELSE Out(200, "", <<NoPassword(saved)>>,
                       [Db EXCEPT !.students =
                             (students \ {student}) \cup {saved}])

updateStudent(user, id, body) ==
    IF NotProfessor(user) THEN Forbidden403
    ELSE IF id = BadId THEN Out(500, "Erro ao atualizar aluno.", <<>>, Db)
    ELSE LET found == FindById(students, id) IN
         IF found = {}
         THEN Out(404, "Aluno não encontrado.", <<>>, Db)
         ELSE LET student == TheDoc(found) IN
              IF Has(body, "email") /\ body.email # student.email
              THEN Out(400, "Email não pode ser alterado.", <<>>, Db)
              ELSE LET saved ==
                         [student EXCEPT
                            !.name = IF Has(body, "name")
                                     THEN body.name ELSE @,
                            !.isActive = IF Has(body, "isActive")
                                         THEN body.isActive ELSE @,
                            !.password = IF Has(body, "password")
                                         THEN BcryptHash(body.password)
                                         ELSE @]
                   IN Out(200, "", <<NoPassword(saved)>>,
                          [Db EXCEPT !.students =
                                (students \ {student}) \cup {saved}])

deleteStudent_NoRoleGuard(user, id) ==
    IF id = BadId THEN Out(500, "Erro ao deletar aluno.", <<>>, Db)
    ELSE LET deleted == FindById(students, id) IN
         IF deleted = {}
         THEN Out(404, "Aluno não encontrado.", <<>>, Db)
         ELSE Out(200, "Aluno excluído com sucesso.", <<>>,
                  [Db EXCEPT !.students = students \ deleted])

deleteStudent(user, id) ==
    IF NotProfessor(user) THEN Forbidden403
    ELSE IF id = BadId THEN Out(500, "Erro ao deletar aluno.", <<>>, Db)
    ELSE LET deleted == FindById(students, id) IN
         IF deleted = {}
         THEN Out(404, "Aluno não encontrado.", <<>>, Db)
         ELSE Out(200, "Aluno excluído com sucesso.", <<>>,
                  [Db EXCEPT !.students = students \ deleted])

(***************************************************************************)
(* The middleware chain of a protected router line: auth(), then (where    *)
(* the line has them) the validation rules and validate.  The result says  *)
(* which middlewares ran, the response of the one that stopped the         *)
(* request (status 0 when none did) and req.user.                          *)
(***************************************************************************)
Chain_ValidateFirst(h, hasRules, rulesOk) ==
    LET a == auth(h)
        v == validate(rulesOk)
    IN
    IF hasRules /\ ~v.next
    THEN [ran |-> <<"validate">>, status |-> v.status,
          message |-> v.message, user |-> <<>>]
    ELSE IF ~a.next
    THEN [ran |-> IF hasRules THEN <<"validate", "auth">> ELSE <<"auth">>,
          status |-> a.status, message |-> a.message, user |-> <<>>]
    ELSE [ran |-> IF hasRules THEN <<"validate", "auth">> ELSE <<"auth">>,
          status |-> 0, message |-> "", user |-> a.user]

Chain(h, hasRules, rulesOk) ==
    LET a == auth(h)
        v == validate(rulesOk)
    IN
    IF ~a.next
    THEN [ran |-> <<"auth">>, status |-> a.status, message |-> a.message,
          user |-> <<>>]
    ELSE IF hasRules /\ ~v.next
    THEN [ran |-> <<"auth", "validate">>, status |-> v.status,
          message |-> v.message, user |-> a.user]
    ELSE [ran |-> IF hasRules THEN <<"auth", "validate">> ELSE <<"auth">>,
          status |-> 0, message |-> "", user |-> a.user]

(***************************************************************************)
(* A protected route: its middleware chain `c`, then the controller,       *)
(* whose outcome is `o`.  The result is the response and the store after   *)
(* the request.                                                            *)
(***************************************************************************)
\* req.user as the controller reads it (without fields when not set)
ReqUser(c) == IF c.user = <<>> THEN [f \in {} |-> ""] ELSE c.user[1]

Protected(route, req, c, o) ==
    IF c.status # 0
    THEN [res |-> Reply(route, req, c.status, c.message, c.ran, c.user,
                        <<>>, <<>>),
          db |-> Db]
    ELSE [res |-> Reply(route, req, o.status, o.message,
                        c.ran \o <<"handler">>, c.user, <<>>, o.out),
          db |-> o.db]

\* The request is answered and the store replaced by the one it left.
Serve(served) ==
    \E x \in {served} :
    /\ res' = x.res
    /\ teachers' = x.db.teachers
    /\ students' = x.db.students
    /\ posts' = x.db.posts
    /\ nextId' = x.db.nextId
    /\ nextPostId' = x.db.nextPostId
    /\ made' = x.db.made
    /\ UNCHANGED <<issued, now>>

EmptyBody == [f \in {} |-> ""]

Req(h, id, body) == [header |-> h, id |-> id, body |-> body]

\* The requests sent to a route: with a token header, every path parameter
\* of `ids` and every body of `bodies`; with another header, the bodies of
\* `probes` (a valid and an invalid one where the route validates).
Requests(ids, bodies, probes) ==
    {Req(h, id, b) : h \in TokenHeaders, id \in ids, b \in bodies}
        \cup {Req(h, CHOOSE id \in ids : TRUE, b) :
                    h \in OtherHeaders, b \in probes}

NoId == {""}

NoBody == {EmptyBody}

ShortName == [name |-> "An", email |-> "a@escola.com", password |-> "senha123"]

ValidBody == [name |-> "Ana", email |-> "a@escola.com", password |-> "senha123"]

\* Path parameters: every ObjectId that may have been generated, and a
\* string that is no ObjectId.
IdInputs == {IdToString(n) : n \in 1..MaxDocs} \cup {BadId}

\* Bodies of POST /teachers and POST /students: eight valid ones and one
\* whose name is too short.
CreateBodies ==
    [name : Names, email : Emails, password : Passwords]
        \cup {ShortName}

StudentCreateBodies ==
    CreateBodies
        \cup [name : Names, email : Emails, password : Passwords,
              isActive : BOOLEAN]

\* Bodies of PUT /teachers/:id and PUT /students/:id.
UpdateBodies ==
    {EmptyBody}
        \cup [name : Names] \cup [email : Emails] \cup [password : Passwords]
        \cup [name : Names, email : Emails]
        \cup {[name |-> "An"]}

StudentUpdateBodies == UpdateBodies \cup [isActive : BOOLEAN]

(***************************************************************************)
(* routes/teacherRoutes.js                                                 *)
(***************************************************************************)
GetAllTeachersReq ==
    /\ res = NoRes
    /\ \E r \in Requests(NoId, NoBody, NoBody) :
          LET c == Chain(r.header, FALSE, TRUE) IN
          Serve(Protected("GET /teachers", r, c,
                          getAllTeachers(ReqUser(c))))

GetTeacherByIdReq ==
    /\ res = NoRes
    /\ \E r \in Requests(IdInputs, NoBody, NoBody) :
          LET c == Chain(r.header, FALSE, TRUE) IN
          Serve(Protected("GET /teachers/:id", r, c,
                          getTeacherById(ReqUser(c), r.id)))

CreateTeacherReq ==
    /\ res = NoRes
    /\ nextId <= MaxDocs
    /\ \E r \in Requests(NoId, CreateBodies, {ValidBody, ShortName}) :
          LET c == Chain(r.header, TRUE, teacherValidationRules(r.body)) IN
          Serve(Protected("POST /teachers", r, c,
                          createTeacher(ReqUser(c), r.body)))

UpdateTeacherReq ==
    /\ res = NoRes
    /\ \E r \in Requests(IdInputs, UpdateBodies, {ValidBody, ShortName}) :
          LET c == Chain(r.header, TRUE, teacherUpdateValidationRules(r.body)) IN
          Serve(Protected("PUT /teachers/:id", r, c,
                          updateTeacher(ReqUser(c), r.id, r.body)))

DeleteTeacherReq ==
    /\ res = NoRes
    /\ \E r \in Requests(IdInputs, NoBody, NoBody) :
          LET c == Chain(r.header, FALSE, TRUE) IN
          Serve(Protected("DELETE /teachers/:id", r, c,
                          deleteTeacher(ReqUser(c), r.id)))

(***************************************************************************)
(* routes/studentRoutes.js                                                 *)
(***************************************************************************)
GetAllStudentsReq ==
    /\ res = NoRes
    /\ \E r \in Requests(NoId, NoBody, NoBody) :
          LET c == Chain(r.header, FALSE, TRUE) IN
          Serve(Protected("GET /students", r, c,
                          getAllStudents(ReqUser(c))))

GetStudentByIdReq ==
    /\ res = NoRes
    /\ \E r \in Requests(IdInputs, NoBody, NoBody) :
          LET c == Chain(r.header, FALSE, TRUE) IN
          Serve(Protected("GET /students/:id", r, c,
                          getStudentById(ReqUser(c), r.id)))

CreateStudentReq ==
    /\ res = NoRes
    /\ nextId <= MaxDocs
    /\ \E r \in Requests(NoId, StudentCreateBodies, {ValidBody, ShortName}) :
          LET c == Chain(r.header, TRUE, studentValidationRules(r.body)) IN
          Serve(Protected("POST /students", r, c,
                          createStudent(ReqUser(c), r.body)))

UpdateStudentReq ==
    /\ res = NoRes
    /\ \E r \in Requests(IdInputs, StudentUpdateBodies, {ValidBody, ShortName}) :
          LET c == Chain(r.header, TRUE, studentUpdateValidationRules(r.body)) IN
          Serve(Protected("PUT /students/:id", r, c,
                          updateStudent(ReqUser(c), r.id, r.body)))

DeleteStudentReq ==
    /\ res = NoRes
    /\ \E r \in Requests(IdInputs, NoBody, NoBody) :
          LET c == Chain(r.header, FALSE, TRUE) IN
          Serve(Protected("DELETE /students/:id", r, c,
                          deleteStudent(ReqUser(c), r.id)))

(***************************************************************************)
(* A Post document: _id, title, content, author, description, isActive     *)
(* and the comments sequence.                                              *)
(***************************************************************************)
Post(id, title, content, author, description, isActive, comments) ==
    [id |-> id, title |-> title, content |-> content, author |-> author,
     description |-> description, isActive |-> isActive,
     comments |-> comments]

\* The description of a post whose body carries none.
NoDescription == ""

\* The schema default of isActive, taken when the body does not carry it.
PostIsActiveDefault == TRUE

\* ObjectIds of posts follow those of the principals.
PostIdToString(n) == IdToString(MaxDocs + 1 + n)

FindPostById(id) == {d \in posts : PostIdToString(d.id) = id}

\* Posts in the order of .sort({createdAt: -1}): the newest first.  ObjectIds
\* of posts are generated in the order of creation.
RECURSIVE NewestFirst(_)
NewestFirst(found) ==
    IF found = {} THEN <<>>
    ELSE LET d == CHOOSE x \in found : \A y \in found : y.id <= x.id
         IN <<d>> \o NewestFirst(found \ {d})

\* Posts in the order of a find() without sort: the order of insertion.
RECURSIVE OldestFirst(_)
OldestFirst(found) ==
    IF found = {} THEN <<>>
    ELSE LET d == CHOOSE x \in found : \A y \in found : x.id <= y.id
         IN <<d>> \o OldestFirst(found \ {d})

(***************************************************************************)
(* An embedded comment: _id, author, role, comment (the text), createdAt.  *)
(* `made` keeps, for the n-th comment ObjectId generated, the claims of    *)
(* the token of the request that had the comment stored and the handler    *)
(* that stored it.                                                         *)
(***************************************************************************)
Comment(id, author, role, comment, createdAt) ==
    [id |-> id, author |-> author, role |-> role, comment |-> comment,
     createdAt |-> createdAt]

CommentIdStrings == [n \in 1..(MaxComments + 2) |-> "c" \o ToString(n)]

CommentIdToString(n) == CommentIdStrings[n]

Origin(user, via) ==
    [by |-> IF Has(user, "id") THEN user.id ELSE "",
     name |-> IF Has(user, "name") THEN user.name ELSE "",
     role |-> IF Has(user, "role") THEN user.role ELSE "",
     via |-> via]

\* The comments of a new Post({.., comments}): the subdocuments of the
\* body, each given an _id and the createdAt default.
CastComments(list) ==
    [i \in 1..Len(list) |->
        Comment(Len(made) + i, list[i].author, list[i].role,
                list[i].comment, now)]

(***************************************************************************)
(* validators/postValidator.js: title of at least 5 characters, content    *)
(* of at least 10, author of at least 3.                                   *)
(***************************************************************************)
postValidationRules(body) ==
    /\ NotEmpty(body, "title") /\ Len(body.title) >= 5
    /\ NotEmpty(body, "content") /\ Len(body.content) >= 10
    /\ NotEmpty(body, "author") /\ Len(body.author) >= 3

(***************************************************************************)
(* postController: createPost, updatePost, deletePost                      *)
(***************************************************************************)
Unauthorized401 == Out(401, "Acesso restrito a professores.", <<>>, Db)

\* req.user?.role === 'professor'
IsProfessor(user) == Has(user, "role") /\ user.role = "professor"

getAllPosts_NoFilter(user) ==
    Out(200, "", <<NewestFirst(posts)>>, Db)

getAllPosts(user) ==
    LET found == IF IsProfessor(user) THEN posts
                 ELSE {d \in posts : d.isActive}
    IN Out(200, "", <<NewestFirst(found)>>, Db)

getPostById_Forbids(user, id) ==
    IF id = BadId THEN Out(500, "Erro ao buscar post.", <<>>, Db)
    ELSE LET found == FindPostById(id) IN
         IF found = {}
         THEN Out(404, "Post não encontrado.", <<>>, Db)
         ELSE IF ~IsProfessor(user) /\ ~TheDoc(found).isActive
         THEN Out(403, "Acesso restrito a professores.", <<>>, Db)
         ELSE Out(200, "", <<TheDoc(found)>>, Db)

getPostById(user, id) ==
    IF id = BadId THEN Out(500, "Erro ao buscar post.", <<>>, Db)
    ELSE LET found == {d \in FindPostById(id) :
                          IsProfessor(user) \/ d.isActive}
         IN IF found = {}
            THEN Out(404, "Post não encontrado.", <<>>, Db)
            ELSE Out(200, "", <<TheDoc(found)>>, Db)

\* new RegExp(query, 'i').test(text), for the search terms and the texts
\* of the model: both are lower-cased, then the term is looked for in the
\* text.
Lower(str) ==
    CASE str = "Primeiro post" -> "primeiro post"
      [] str = "Segundo post" -> "segundo post"
      [] str = "Texto do post" -> "texto do post"
      [] str = "Ana" -> "ana"
      [] str = "SEGUNDO" -> "segundo"
      [] OTHER -> str

Occurrences ==
    {<<"primeiro", "primeiro post">>, <<"segundo", "segundo post">>}

RegExpTest(query, text) == <<Lower(query), Lower(text)>> \in Occurrences

searchPosts(user, query) ==
    IF ~(Has(user, "role") /\ user.role \in {"professor", "aluno"})
    THEN Out(401, "Acesso restrito a professores e alunos.", <<>>, Db)
    ELSE LET found == {d \in posts : \/ RegExpTest(query, d.title)
                                      \/ RegExpTest(query, d.content)
                                      \/ RegExpTest(query, d.author)}
         IN Out(200, "", <<OldestFirst(found)>>, Db)

createPost_NoRoleGuard(user, body) ==
    LET newPost == Post(nextPostId, body.title, body.content, body.author,
                        IF Has(body, "description") THEN body.description
                        ELSE NoDescription,
                        IF Has(body, "isActive") THEN body.isActive
                        ELSE PostIsActiveDefault,
                        IF Has(body, "comments")
                        THEN CastComments(body.comments)
                        ELSE <<>>)
    IN Out(201, "", <<newPost>>,
           [Db EXCEPT !.posts = posts \cup {newPost},
                      !.nextPostId = nextPostId + 1,
                      !.made = made \o
                        [i \in 1..Len(newPost.comments) |->
                            Origin(user, "createPost")]])

createPost(user, body) ==
    IF NotProfessor(user) THEN Unauthorized401
    ELSE LET newPost == Post(nextPostId, body.title, body.content,
                             body.author,
                             IF Has(body, "description")
                             THEN body.description ELSE NoDescription,
                             IF Has(body, "isActive") THEN body.isActive
                             ELSE PostIsActiveDefault,
                             IF Has(body, "comments")
                             THEN CastComments(body.comments)
                             ELSE <<>>)
         IN Out(201, "", <<newPost>>,
                [Db EXCEPT !.posts = posts \cup {newPost},
                           !.nextPostId = nextPostId + 1,
                           !.made = made \o
                             [i \in 1..Len(newPost.comments) |->
                                 Origin(user, "createPost")]])

updatePost_TakesComments(user, id, body) ==
    IF NotProfessor(user) THEN Unauthorized401
    ELSE IF id = BadId THEN Out(500, "Erro ao atualizar post.", <<>>, Db)
    ELSE LET found == FindPostById(id) IN
         IF found = {}
         THEN Out(404, "Post não encontrado.", <<>>, Db)
         ELSE LET post == TheDoc(found)
                  updated == [post EXCEPT
                                !.title = body.title,
                                !.content = body.content,
                                !.author = body.author,
                                !.description =
                                    IF Has(body, "description")
                                    THEN body.description ELSE @,
                                !.isActive = IF Has(body, "isActive")
                                             THEN body.isActive ELSE @,
                                !.comments =
                                    IF Has(body, "comments")
                                    THEN [i \in 1..Len(body.comments) |->
                                            Comment(i, body.comments[i].author,
                                                    body.comments[i].role,
                                                    body.comments[i].comment,
                                                    now)]
                                    ELSE @]
              IN Out(200, "", <<updated>>,
                     [Db EXCEPT !.posts = (posts \ {post}) \cup {updated}])

\* findByIdAndUpdate sets the fields the body carries; comments is not
\* among the fields taken from the body.
updatePost(user, id, body) ==
    IF NotProfessor(user) THEN Unauthorized401
    ELSE IF id = BadId THEN Out(500, "Erro ao atualizar post.", <<>>, Db)
    ELSE LET found == FindPostById(id) IN
         IF found = {}
         THEN Out(404, "Post não encontrado.", <<>>, Db)
         ELSE LET post == TheDoc(found)
                  updated == [post EXCEPT
                                !.title = body.title,
                                !.content = body.content,
                                !.author = body.author,
                                !.description =
                                    IF Has(body, "description")
                                    THEN body.description ELSE @,
                                !.isActive = IF Has(body, "isActive")
                                             THEN body.isActive ELSE @]
              IN Out(200, "", <<updated>>,
                     [Db EXCEPT !.posts = (posts \ {post}) \cup {updated}])

deletePost(user, id) ==
    IF NotProfessor(user) THEN Unauthorized401
    ELSE IF id = BadId THEN Out(500, "Erro ao deletar post.", <<>>, Db)
    ELSE LET deleted == FindPostById(id) IN
         IF deleted = {}
         THEN Out(404, "Post não encontrado.", <<>>, Db)
         ELSE Out(200, "Post excluído com sucesso.", <<>>,
                  [Db EXCEPT !.posts = posts \ deleted])

(***************************************************************************)
(* postController: addComment, updateComment, deleteComment.  The rules    *)
(* of the two comment bodies: the text is present and not empty.           *)
(***************************************************************************)
commentValidationRules(body) == NotEmpty(body, "comment")

updateCommentValidationRules(body) == NotEmpty(body, "comment")

\* post.comments.id(commentId): the positions holding that _id (none when
\* the string is no ObjectId)
CommentsId(post, commentId) ==
    {i \in 1..Len(post.comments) :
        CommentIdToString(post.comments[i].id) = commentId}

\* post.comments.pull(commentId)
Pull(comments, commentId) ==
    LET Keeps(c) == CommentIdToString(c.id) # commentId
    IN SelectSeq(comments, Keeps)

NotFoundPost == Out(404, "Post não encontrado.", <<>>, Db)

NotFoundComment == Out(404, "Comentário não encontrado.", <<>>, Db)

addComment_Prepends(user, id, body) ==
    IF id = BadId THEN Out(500, "Erro ao adicionar comentário.", <<>>, Db)
    ELSE LET found == FindPostById(id) IN
         IF found = {} THEN NotFoundPost
         ELSE LET post == TheDoc(found)
                  newComment == Comment(Len(made) + 1, user.name, user.role,
                                        body.comment, now)
                  saved == [post EXCEPT !.comments = <<newComment>> \o @]
              IN Out(201, "", <<saved>>,
                     [Db EXCEPT !.posts = (posts \ {post}) \cup {saved},
                                !.made = Append(made,
                                                Origin(user, "addComment"))])

addComment_AuthorFromBody(user, id, body) ==
    IF id = BadId THEN Out(500, "Erro ao adicionar comentário.", <<>>, Db)
    ELSE LET found == FindPostById(id) IN
         IF found = {} THEN NotFoundPost
         ELSE LET post == TheDoc(found)
                  newComment == Comment(Len(made) + 1,
                                        IF Has(body, "author")
                                        THEN body.author ELSE user.name,
                                        IF Has(body, "role")
                                        THEN body.role ELSE user.role,
                                        body.comment, now)
                  saved == [post EXCEPT !.comments = Append(@, newComment)]
              IN Out(201, "", <<saved>>,
                     [Db EXCEPT !.posts = (posts \ {post}) \cup {saved},
                                !.made = Append(made,
                                                Origin(user, "addComment"))])

addComment(user, id, body) ==
    IF id = BadId THEN Out(500, "Erro ao adicionar comentário.", <<>>, Db)
    ELSE LET found == FindPostById(id) IN
         IF found = {} THEN NotFoundPost
         ELSE LET post == TheDoc(found)
                  newComment == Comment(Len(made) + 1, user.name, user.role,
                                        body.comment, now)
                  saved == [post EXCEPT !.comments = Append(@, newComment)]
              IN Out(201, "", <<saved>>,
                     [Db EXCEPT !.posts = (posts \ {post}) \cup {saved},
                                !.made = Append(made,
                                                Origin(user, "addComment"))])

updateComment_MissingIsForbidden(user, id, commentId, body) ==
    IF id = BadId THEN Out(500, "Erro ao atualizar comentário.", <<>>, Db)
    ELSE LET found == FindPostById(id) IN
         IF found = {} THEN NotFoundPost
         ELSE LET post == TheDoc(found)
                  at == CommentsId(post, commentId)
                  own == {k \in at : /\ post.comments[k].author = user.name
                                     /\ post.comments[k].role = user.role}
              IN
              IF own = {}
              THEN Out(403,
                       "Você só pode atualizar seus próprios comentários.",
                       <<>>, Db)
              ELSE LET i == CHOOSE k \in own : TRUE
                       saved == [post EXCEPT
                                   !.comments[i].comment = body.comment]
                   IN Out(200, "", <<saved>>,
                          [Db EXCEPT
                             !.posts = (posts \ {post}) \cup {saved}])

updateComment_ProfessorOverride(user, id, commentId, body) ==
    IF id = BadId THEN Out(500, "Erro ao atualizar comentário.", <<>>, Db)
    ELSE LET found == FindPostById(id) IN
         IF found = {} THEN NotFoundPost
         ELSE LET post == TheDoc(found)
                  at == CommentsId(post, commentId)
              IN
              IF at = {} THEN NotFoundComment
              ELSE LET i == CHOOSE k \in at : TRUE
                       commentToUpdate == post.comments[i]
                   IN
                   IF /\ \/ commentToUpdate.author # user.name
                         \/ commentToUpdate.role # user.role
                      /\ user.role # "professor"
                   THEN Out(403,
                            "Você só pode atualizar seus próprios comentários.",
                            <<>>, Db)
                   ELSE LET saved == [post EXCEPT
                                        !.comments[i].comment = body.comment]
                        IN Out(200, "", <<saved>>,
                               [Db EXCEPT
                                  !.posts = (posts \ {post}) \cup {saved}])

updateComment_Restamps(user, id, commentId, body) ==
    IF id = BadId THEN Out(500, "Erro ao atualizar comentário.", <<>>, Db)
    ELSE LET found == FindPostById(id) IN
         IF found = {} THEN NotFoundPost
         ELSE LET post == TheDoc(found)
                  at == CommentsId(post, commentId)
              IN
              IF at = {} THEN NotFoundComment
              ELSE LET i == CHOOSE k \in at : TRUE
                       commentToUpdate == post.comments[i]
                   IN
                   IF \/ commentToUpdate.author # user.name
                      \/ commentToUpdate.role # user.role
                   THEN Out(403,
                            "Você só pode atualizar seus próprios comentários.",
                            <<>>, Db)
                   ELSE LET saved == [post EXCEPT
                                        !.comments[i].comment = body.comment,
                                        !.comments[i].createdAt = now + 1]
                        IN Out(200, "", <<saved>>,
                               [Db EXCEPT
                                  !.posts = (posts \ {post}) \cup {saved}])

updateComment(user, id, commentId, body) ==
    IF id = BadId THEN Out(500, "Erro ao atualizar comentário.", <<>>, Db)
    ELSE LET found == FindPostById(id) IN
         IF found = {} THEN NotFoundPost
         ELSE LET post == TheDoc(found)
                  at == CommentsId(post, commentId)
              IN
              IF at = {} THEN NotFoundComment
              ELSE LET i == CHOOSE k \in at : TRUE
                       commentToUpdate == post.comments[i]
                   IN
                   IF \/ commentToUpdate.author # user.name
                      \/ commentToUpdate.role # user.role
                   THEN Out(403,
                            "Você só pode atualizar seus próprios comentários.",
                            <<>>, Db)
                   ELSE LET saved == [post EXCEPT
                                        !.comments[i].comment = body.comment]
                        IN Out(200, "", <<saved>>,
                               [Db EXCEPT
                                  !.posts = (posts \ {post}) \cup {saved}])

\* The three cases of canDelete
CanDelete(user, commentToDelete) ==
    \/ commentToDelete.author = user.name /\ commentToDelete.role = user.role
    \/ user.role = "professor" /\ commentToDelete.role = "aluno"
    \/ /\ user.role = "professor"
       /\ commentToDelete.role = "professor"
       /\ commentToDelete.author = user.name

deleteComment_MissingIsForbidden(user, id, commentId) ==
    IF id = BadId THEN Out(500, "Erro ao deletar comentário.", <<>>, Db)
    ELSE LET found == FindPostById(id) IN
         IF found = {} THEN NotFoundPost
         ELSE LET post == TheDoc(found)
                  at == CommentsId(post, commentId)
              IN
              IF at = {}
              THEN IF user.role = "professor" THEN NotFoundComment
                   ELSE Out(403,
                            "Você não tem permissão para deletar este comentário.",
                            <<>>, Db)
              ELSE LET commentToDelete == post.comments[CHOOSE k \in at : TRUE]
                   IN
                   IF ~CanDelete(user, commentToDelete)
                   THEN Out(403,
                            "Você não tem permissão para deletar este comentário.",
                            <<>>, Db)
                   ELSE LET saved == [post EXCEPT
                                        !.comments = Pull(@, commentId)]
                        IN Out(200, "Comentário deletado com sucesso.",
                               <<saved>>,
                               [Db EXCEPT
                                  !.posts = (posts \ {post}) \cup {saved}])

deleteComment_AnyProfessor(user, id, commentId) ==
    IF id = BadId THEN Out(500, "Erro ao deletar comentário.", <<>>, Db)
    ELSE LET found == FindPostById(id) IN
         IF found = {} THEN NotFoundPost
         ELSE LET post == TheDoc(found)
                  at == CommentsId(post, commentId)
              IN
              IF at = {} THEN NotFoundComment
              ELSE LET commentToDelete == post.comments[CHOOSE k \in at : TRUE]
                   IN
                   IF ~(\/ CanDelete(user, commentToDelete)
                        \/ user.role = "professor")
                   THEN Out(403,
                            "Você não tem permissão para deletar este comentário.",
                            <<>>, Db)
                   ELSE LET saved == [post EXCEPT
                                        !.comments = Pull(@, commentId)]
                        IN Out(200, "Comentário deletado com sucesso.",
                               <<saved>>,
                               [Db EXCEPT
                                  !.posts = (posts \ {post}) \cup {saved}])

deleteComment_PopsLast(user, id, commentId) ==
    IF id = BadId THEN Out(500, "Erro ao deletar comentário.", <<>>, Db)
    ELSE LET found == FindPostById(id) IN
         IF found = {} THEN NotFoundPost
         ELSE LET post == TheDoc(found)
                  at == CommentsId(post, commentId)
              IN
              IF at = {} THEN NotFoundComment
              ELSE LET commentToDelete == post.comments[CHOOSE k \in at : TRUE]
                   IN
                   IF ~CanDelete(user, commentToDelete)
                   THEN Out(403,
                            "Você não tem permissão para deletar este comentário.",
                            <<>>, Db)
                   ELSE LET saved == [post EXCEPT
                                        !.comments =
                                            SubSeq(@, 1, Len(@) - 1)]
                        IN Out(200, "Comentário deletado com sucesso.",
                               <<saved>>,
                               [Db EXCEPT
                                  !.posts = (posts \ {post}) \cup {saved}])

deleteComment(user, id, commentId) ==
    IF id = BadId THEN Out(500, "Erro ao deletar comentário.", <<>>, Db)
    ELSE LET found == FindPostById(id) IN
         IF found = {} THEN NotFoundPost
         ELSE LET post == TheDoc(found)
                  at == CommentsId(post, commentId)
              IN
              IF at = {} THEN NotFoundComment
              ELSE LET commentToDelete == post.comments[CHOOSE k \in at : TRUE]
                   IN
                   IF ~CanDelete(user, commentToDelete)
                   THEN Out(403,
                            "Você não tem permissão para deletar este comentário.",
                            <<>>, Db)
                   ELSE LET saved == [post EXCEPT
                                        !.comments = Pull(@, commentId)]
                        IN Out(200, "Comentário deletado com sucesso.",
                               <<saved>>,
                               [Db EXCEPT
                                  !.posts = (posts \ {post}) \cup {saved}])

Titles == {"Primeiro post", "Segundo post"}

PostIdInputs == {PostIdToString(n) : n \in 1..MaxPosts} \cup {BadId}

ShortTitle == [title |-> "Oi", content |-> "Texto do post", author |-> "Ana"]

ValidPost == [title |-> "Primeiro post", content |-> "Texto do post",
              author |-> "Ana"]

\* Bodies that carry a comments array, empty or not.
UncommentedPost ==
    [title |-> "Segundo post", content |-> "Texto do post", author |-> "Ana",
     comments |-> <<>>]

RecommentedPost ==
    [title |-> "Segundo post", content |-> "Texto do post", author |-> "Ana",
     comments |-> <<[author |-> "Bia", role |-> "professor",
                     comment |-> "Trocado"]>>]

\* Bodies of POST /posts and PUT /posts/:id: with and without isActive,
\* with a comments array, and one whose title is too short.
PostBodies ==
    [title : Titles, content : {"Texto do post"}, author : {"Ana"}]
        \cup [title : Titles, content : {"Texto do post"}, author : {"Ana"},
              isActive : BOOLEAN]
        \cup {UncommentedPost, RecommentedPost}
        \cup {ShortTitle}

(***************************************************************************)
(* routes/postRoutes.js                                                    *)
(***************************************************************************)
GetAllPostsReq ==
    /\ res = NoRes
    /\ \E r \in Requests(NoId, NoBody, NoBody) :
          LET c == Chain(r.header, FALSE, TRUE) IN
          Serve(Protected("GET /posts", r, c, getAllPosts(ReqUser(c))))

GetPostByIdReq ==
    /\ res = NoRes
    /\ \E r \in Requests(PostIdInputs, NoBody, NoBody) :
          LET c == Chain(r.header, FALSE, TRUE) IN
          Serve(Protected("GET /posts/:id", r, c,
                          getPostById(ReqUser(c), r.id)))

\* req.query.q of GET /posts/search
SearchTerms == {"primeiro", "SEGUNDO", "semresultado"}

Queries == {[q |-> term] : term \in SearchTerms}

SearchPostsReq ==
    /\ res = NoRes
    /\ \E r \in Requests(NoId, Queries, {[q |-> "semresultado"]}) :
          LET c == Chain(r.header, FALSE, TRUE) IN
          Serve(Protected("GET /posts/search", r, c,
                          searchPosts(ReqUser(c), r.body.q)))

CreatePostReq ==
    /\ res = NoRes
    /\ nextPostId <= MaxPosts
    /\ \E r \in Requests(NoId, PostBodies, {ValidPost, ShortTitle}) :
          LET c == Chain(r.header, TRUE, postValidationRules(r.body)) IN
          Serve(Protected("POST /posts", r, c,
                          createPost(ReqUser(c), r.body)))

UpdatePostReq ==
    /\ res = NoRes
    /\ \E r \in Requests(PostIdInputs, PostBodies, {ValidPost, ShortTitle}) :
          LET c == Chain(r.header, TRUE, postValidationRules(r.body)) IN
          Serve(Protected("PUT /posts/:id", r, c,
                          updatePost(ReqUser(c), r.id, r.body)))

DeletePostReq ==
    /\ res = NoRes
    /\ \E r \in Requests(PostIdInputs, NoBody, NoBody) :
          LET c == Chain(r.header, FALSE, TRUE) IN
          Serve(Protected("DELETE /posts/:id", r, c,
                          deletePost(ReqUser(c), r.id)))

\* A body of POST /posts that carries a comments array, as a client may
\* send it: author and role are whatever the client wrote.
CommentedPost ==
    [title |-> "Primeiro post", content |-> "Texto do post", author |-> "Ana",
     description |-> "Com comentários",
     comments |-> <<[author |-> "Caio", role |-> "aluno",
                     comment |-> "Muito bom!"]>>]

CreateCommentedPostReq ==
    /\ res = NoRes
    /\ nextPostId <= MaxPosts
    /\ Len(made) + Len(CommentedPost.comments) <= MaxComments
    /\ \E r \in Requests(NoId, {CommentedPost}, {CommentedPost}) :
          LET c == Chain(r.header, TRUE, postValidationRules(r.body)) IN
          Serve(Protected("POST /posts", r, c,
                          createPost(ReqUser(c), r.body)))

\* Path parameters of the comment routes: <<id, commentId>>
CommentIdInputs == {CommentIdToString(n) : n \in 1..MaxComments} \cup {BadId}

CommentPaths == PostIdInputs \X CommentIdInputs

\* Bodies of POST /posts/:id/comments: a text, a text together with an
\* author and a role of the client's choosing, and an empty text.
PlainComment == [comment |-> "bom"]

EmptyComment == [comment |-> ""]

SignedComment == [comment |-> "bom", author |-> "Caio", role |-> "professor"]

CommentBodies == {PlainComment, SignedComment, EmptyComment}

\* Bodies of PUT /posts/:id/comments/:commentId
EditedComment == [comment |-> "melhor"]

UpdateCommentBodies == {EditedComment, EmptyComment}

AddCommentReq ==
    /\ res = NoRes
    /\ Len(made) < MaxComments
    /\ \E r \in Requests(PostIdInputs, CommentBodies,
                         {PlainComment, EmptyComment}) :
          LET c == Chain(r.header, TRUE, commentValidationRules(r.body)) IN
          Serve(Protected("POST /posts/:id/comments", r, c,
                          addComment(ReqUser(c), r.id, r.body)))

UpdateCommentReq ==
    /\ res = NoRes
    /\ \E r \in Requests(CommentPaths, UpdateCommentBodies,
                         UpdateCommentBodies) :
          LET c == Chain(r.header, TRUE,
                         updateCommentValidationRules(r.body)) IN
          Serve(Protected("PUT /posts/:id/comments/:commentId", r, c,
                          updateComment(ReqUser(c), r.id[1], r.id[2],
                                        r.body)))

DeleteCommentReq ==
    /\ res = NoRes
    /\ \E r \in Requests(CommentPaths, NoBody, NoBody) :
          LET c == Chain(r.header, FALSE, TRUE) IN
          Serve(Protected("DELETE /posts/:id/comments/:commentId", r, c,
                          deleteComment(ReqUser(c), r.id[1], r.id[2])))

(***************************************************************************)
(* The store at start: one professor, active or not, and nothing else.     *)
(***************************************************************************)
Init ==
    /\ \E a \in BOOLEAN :
          teachers = {Principal(1, "Ana", "a@escola.com",
                                BcryptHash("senha123"), a)}
    /\ students = {}
    /\ posts = {}
    /\ nextId = 2
    /\ nextPostId = 1
    /\ issued = {}
    /\ now = 0
    /\ res = NoRes
    /\ made = <<>>

Next ==
    \/ LoginReq
    \/ Forget
    \/ Deliver
    \/ Tick
    \/ GetAllTeachersReq
    \/ GetTeacherByIdReq
    \/ CreateTeacherReq
    \/ UpdateTeacherReq
    \/ DeleteTeacherReq
    \/ GetAllStudentsReq
    \/ GetStudentByIdReq
    \/ CreateStudentReq
    \/ UpdateStudentReq
    \/ DeleteStudentReq

Spec == Init /\ [][Next]_vars

(***************************************************************************)
(* The blog with its two kinds of principals in place: one active          *)
(* professor and one active student, posts managed through the API.        *)
(***************************************************************************)
InitPosts ==
    /\ teachers = {Principal(1, "Ana", "a@escola.com",
                             BcryptHash("senha123"), TRUE)}
    /\ students = {Principal(2, "Bia", "b@escola.com",
                             BcryptHash("outra456"), TRUE)}
    /\ posts = {}
    /\ nextId = 3
    /\ nextPostId = 1
    /\ issued = {}
    /\ now = 0
    /\ res = NoRes
    /\ made = <<>>

NextPosts ==
    \/ LoginReq
    \/ Forget
    \/ Deliver
    \/ Tick
    \/ GetAllPostsReq
    \/ SearchPostsReq
    \/ GetPostByIdReq
    \/ CreatePostReq
    \/ UpdatePostReq
    \/ DeletePostReq

SpecPosts == InitPosts /\ [][NextPosts]_vars

(***************************************************************************)
(* The blog in use: two professors, two students who bear the same name    *)
(* (one of them also the name of a professor), each logged in at time 0,   *)
(* and one post published.  Comments are added, edited and deleted, and    *)
(* a post is created with a comments array in its body.  The ObjectIds of  *)
(* the principals are apart from those of the posts.                       *)
(***************************************************************************)
LoggedIn(usuario, role) ==
    JwtSign([id |-> IdToString(usuario.id), email |-> usuario.email,
             role |-> role, name |-> usuario.name], JwtSecret, 0)

SeedTeachers ==
    {Principal(1, "Ana", "a@escola.com", BcryptHash("senha123"), TRUE),
     Principal(2, "Bia", "b@escola.com", BcryptHash("senha123"), TRUE)}

SeedStudents ==
    {Principal(3, "Ana", "c@escola.com", BcryptHash("outra456"), TRUE),
     Principal(6, "Ana", "d@escola.com", BcryptHash("outra456"), TRUE)}

InitComments ==
    /\ teachers = SeedTeachers
    /\ students = SeedStudents
    /\ posts = {Post(1, "Segundo post", "Texto do post", "Ana",
                     "Resumo do post", TRUE, <<>>)}
    /\ nextId = 7
    /\ nextPostId = 2
    /\ issued = {LoggedIn(t, "professor") : t \in SeedTeachers}
                    \cup {LoggedIn(s, "aluno") : s \in SeedStudents}
    /\ now = 0
    /\ res = NoRes
    /\ made = <<>>

NextComments ==
    \/ Deliver
    \/ CreateCommentedPostReq
    \/ AddCommentReq
    \/ UpdateCommentReq
    \/ DeleteCommentReq

SpecComments == InitComments /\ [][NextComments]_vars

(***************************************************************************)
(* The school's records under administration: a professor and a student    *)
(* that were in the store before the API generated any id, both logged     *)
(* in, and the Teacher and Student routes.                                 *)
(***************************************************************************)
SeedProfessor ==
    Principal(5, "Ana", "p@escola.com", BcryptHash("senha123"), TRUE)

SeedStudent ==
    Principal(6, "Bia", "b@escola.com", BcryptHash("outra456"), TRUE)

InitSchool ==
    /\ teachers = {SeedProfessor}
    /\ students = {SeedStudent}
    /\ posts = {}
    /\ nextId = 1
    /\ nextPostId = 1
    /\ issued = {LoggedIn(SeedProfessor, "professor"),
                 LoggedIn(SeedStudent, "aluno")}
    /\ now = 0
    /\ res = NoRes
    /\ made = <<>>

NextSchool ==
    \/ Deliver
    \/ GetAllTeachersReq
    \/ GetTeacherByIdReq
    \/ CreateTeacherReq
    \/ UpdateTeacherReq
    \/ DeleteTeacherReq
    \/ GetAllStudentsReq
    \/ GetStudentByIdReq
    \/ CreateStudentReq
    \/ UpdateStudentReq
    \/ DeleteStudentReq

SpecSchool == InitSchool /\ [][NextSchool]_vars

(***************************************************************************)
(* The blog as its students meet it: only a student is logged in.  The     *)
(* professor has published a post, the professor and the student have      *)
(* commented on it, and the professor has then taken it offline.  Every    *)
(* route is open to requests.                                              *)
(***************************************************************************)
ReadersProfessor ==
    Principal(1, "Ana", "a@escola.com", BcryptHash("senha123"), TRUE)

ReadersPost ==
    Post(1, "Primeiro post", "Texto do post", "Ana", "Resumo do post", FALSE,
         <<Comment(1, "Ana", "professor", "bom", 0),
           Comment(2, "Bia", "aluno", "bom", 0)>>)

InitReaders ==
    /\ teachers = {ReadersProfessor}
    /\ students = {SeedStudent}
    /\ posts = {ReadersPost}
    /\ nextId = 2
    /\ nextPostId = 2
    /\ issued = {LoggedIn(SeedStudent, "aluno")}
    /\ now = 0
    /\ res = NoRes
    /\ made = <<Origin(LoggedIn(ReadersProfessor, "professor").payload,
                       "addComment"),
                Origin(LoggedIn(SeedStudent, "aluno").payload, "addComment")>>

NextReaders ==
    \/ Deliver
    \/ GetAllTeachersReq
    \/ GetTeacherByIdReq
    \/ CreateTeacherReq
    \/ UpdateTeacherReq
    \/ DeleteTeacherReq
    \/ GetAllStudentsReq
    \/ GetStudentByIdReq
    \/ CreateStudentReq
    \/ UpdateStudentReq
    \/ DeleteStudentReq
    \/ GetAllPostsReq
    \/ SearchPostsReq
    \/ GetPostByIdReq
    \/ CreatePostReq
    \/ UpdatePostReq
    \/ DeletePostReq
    \/ AddCommentReq
    \/ UpdateCommentReq
    \/ DeleteCommentReq

SpecReaders == InitReaders /\ [][NextReaders]_vars

(***************************************************************************)
(* The blog with the professor and the student both logged in, on the      *)
(* store of InitReaders: login, the reading routes, the deletions, the     *)
(* Student administration and the comment routes, answered with every      *)
(* status they can give.                                                   *)
(***************************************************************************)
InitErrors ==
    /\ teachers = {ReadersProfessor}
    /\ students = {SeedStudent}
    /\ posts = {ReadersPost}
    /\ nextId = 2
    /\ nextPostId = 2
    /\ issued = {LoggedIn(ReadersProfessor, "professor"),
                 LoggedIn(SeedStudent, "aluno")}
    /\ now = 0
    /\ res = NoRes
    /\ made = <<Origin(LoggedIn(ReadersProfessor, "professor").payload,
                       "addComment"),
                Origin(LoggedIn(SeedStudent, "aluno").payload, "addComment")>>

NextErrors ==
    \/ Deliver
    \/ LoginReq
    \/ GetAllTeachersReq
    \/ GetTeacherByIdReq
    \/ DeleteTeacherReq
    \/ GetAllStudentsReq
    \/ GetStudentByIdReq
    \/ CreateStudentReq
    \/ UpdateStudentReq
    \/ DeleteStudentReq
    \/ GetAllPostsReq
    \/ SearchPostsReq
    \/ GetPostByIdReq
    \/ DeletePostReq
    \/ AddCommentReq
    \/ UpdateCommentReq
    \/ DeleteCommentReq

SpecErrors == InitErrors /\ [][NextErrors]_vars

(***************************************************************************)
(* Properties.  A state whose `res` is not NoRes is the state right after  *)
(* the request in `res` was served: the store, the clock and the tokens    *)
(* are those the request left.                                             *)
(***************************************************************************)
IsLogin == res.route = "POST /login"

\* The proof login expects: the SHA-256 digest of the shared secret.
ExpectedProof == Sha256Hex(SharedSecret)

FieldsNotEmpty(body) ==
    body.email # "" /\ body.senha # "" /\ body.palavraPasse # ""

Made(call) == \E i \in DOMAIN res.calls : res.calls[i] = call

\* The principal an email stands for: the Teacher holding it, or else the
\* Student holding it; with the role that goes with the collection.
Resolved(email) ==
    IF \E t \in teachers : t.email = email
    THEN {[doc |-> t, role |-> "professor"] : t \in {x \in teachers : x.email = email}}
    ELSE {[doc |-> d, role |-> "aluno"] : d \in {x \in students : x.email = email}}

\* The token of a 200 login response carries the claims of principal p.
TokenOf(p) ==
    /\ res.status = 200
    /\ res.out # <<>>
    /\ LET claims == res.out[1].token.payload IN
          /\ claims.id = IdToString(p.doc.id)
          /\ claims.email = p.doc.email
          /\ claims.name = p.doc.name
          /\ claims.role = p.role
          /\ claims.exp - claims.iat = 86400

C2_LoginSucceedsForEveryActivePrincipal ==
    (IsLogin /\ res.req.palavraPasse = ExpectedProof) =>
        /\ \A t \in teachers :
              (t.email = res.req.email /\ t.isActive
                  /\ BcryptCompare(res.req.senha, t.password))
                  => TokenOf([doc |-> t, role |-> "professor"])
        /\ \A d \in students :
              (d.email = res.req.email /\ d.isActive
                  /\ BcryptCompare(res.req.senha, d.password))
                  => TokenOf([doc |-> d, role |-> "aluno"])
        /\ res.status = 200 =>
              \E d \in teachers \cup students :
                  /\ d.email = res.req.email
                  /\ d.isActive
                  /\ BcryptCompare(res.req.senha, d.password)

\* C3: when an email is held by a Teacher and by a Student, login resolves
\* to the Teacher: the first and only lookup is Teacher.findOne, the
\* Teacher's active flag and password decide the outcome, and a successful
\* login carries role 'professor' and the Teacher's identity.
C3_TeacherTakesPrecedence ==
    (IsLogin /\ res.req.palavraPasse = ExpectedProof) =>
        \A t \in teachers : \A d \in students :
            (t.email = res.req.email /\ d.email = res.req.email) =>
                /\ res.calls # <<>>
                /\ res.calls[1] = "Teacher.findOne"
                /\ ~Made("Student.findOne")
                /\ IF ~t.isActive
                   THEN res.status = 401 /\ res.message = "Usuário inativo."
                   ELSE IF ~BcryptCompare(res.req.senha, t.password)
                   THEN /\ res.status = 401
                        /\ res.message = "Email ou senha incorretos."
                   ELSE TokenOf([doc |-> t, role |-> "professor"])

\* C3 witness: the email is held by a Teacher and a Student with different
\* passwords, and the login with the Teacher's password succeeds as
\* professor.
C3_Witness ==
    /\ IsLogin
    /\ res.status = 200
    /\ res.out[1].user.role = "professor"
    /\ \E t \in teachers : \E d \in students :
          /\ t.email = res.req.email
          /\ d.email = res.req.email
          /\ t.password # d.password
          /\ d.isActive

\* C4: for every resolved principal whose active flag is false, login with
\* the correct proof fails with 401 'Usuário inativo.' whether the password
\* is correct or wrong; bcrypt.compare is not called and no token is
\* issued.
C4_InactiveBeforePassword ==
    (IsLogin /\ res.req.palavraPasse = ExpectedProof) =>
        \A p \in Resolved(res.req.email) :
            ~p.doc.isActive =>
                /\ res.status = 401
                /\ res.message = "Usuário inativo."
                /\ ~Made("bcrypt.compare")
                /\ ~Made("jwt.sign")
                /\ res.out = <<>>

\* C4 witness: an inactive principal logs in with the correct password and
\* is turned down as inactive.
C4_Witness ==
    /\ IsLogin
    /\ res.req.palavraPasse = ExpectedProof
    /\ \E p \in Resolved(res.req.email) :
          /\ ~p.doc.isActive
          /\ BcryptCompare(res.req.senha, p.doc.password)
    /\ res.status = 401
    /\ res.message = "Usuário inativo."

\* C5: with the correct proof, a login for an email that no principal
\* holds and a login for an active principal with a wrong password receive
\* the same response: 401, 'Email ou senha incorretos.', nothing else.
C5_SameResponseForEitherField ==
    (IsLogin /\ res.req.palavraPasse = ExpectedProof) =>
        LET unknownEmail == Resolved(res.req.email) = {}
            wrongPassword ==
                \E p \in Resolved(res.req.email) :
                    /\ p.doc.isActive
                    /\ ~BcryptCompare(res.req.senha, p.doc.password)
        IN (unknownEmail \/ wrongPassword) =>
              <<res.status, res.message, res.out>>
                  = <<401, "Email ou senha incorretos.", <<>>>>

\* C5 witness: an active principal sends a wrong password and receives
\* the response an unknown email receives.
C5_Witness ==
    /\ IsLogin
    /\ res.req.palavraPasse = ExpectedProof
    /\ \E p \in Resolved(res.req.email) :
          /\ p.doc.isActive
          /\ ~BcryptCompare(res.req.senha, p.doc.password)
    /\ res.status = 401
    /\ res.message = "Email ou senha incorretos."
    /\ Made("bcrypt.compare")

\* C6: login accepts the literal 'secreta123' as 'palavra-passe': sent
\* with the email and the correct password of an active principal it
\* returns 200 with a token.
C6_LiteralSecretAccepted ==
    (/\ IsLogin
     /\ res.req.palavraPasse = "secreta123"
     /\ \E p \in Resolved(res.req.email) :
           /\ p.doc.isActive
           /\ BcryptCompare(res.req.senha, p.doc.password))
        => res.status = 200 /\ res.out # <<>>

\* A request to a protected route, its bearer token (a sequence of none or
\* one) and what verification demands of a token: the server's signature
\* and a clock short of exp.
IsProtected == res.route \notin {"none", "POST /login"}

SentToken == res.req.header.rest

Verifies(t) == t.sig = JwtSecret /\ now < t.payload.exp

HandlerRan == res.ran # <<>> /\ res.ran[Len(res.ran)] = "handler"

\* C7: on every protected route the token verifier runs first.  Without a
\* token segment the response is 401 'Token não fornecido.', with a token
\* that fails signature or expiry verification 401 'Token inválido.', in
\* both cases whatever the body and with nothing run after the verifier;
\* the handler runs only for a token that verifies, and req.user is then
\* the claims decoded from it.
C7_VerifierRunsFirst ==
    IsProtected =>
        /\ res.ran[1] = "auth"
        /\ SentToken = <<>> =>
              /\ res.status = 401
              /\ res.message = "Token não fornecido."
              /\ res.ran = <<"auth">>
        /\ (SentToken # <<>> /\ ~Verifies(SentToken[1])) =>
              /\ res.status = 401
              /\ res.message = "Token inválido."
              /\ res.ran = <<"auth">>
        /\ HandlerRan =>
              /\ SentToken # <<>>
              /\ Verifies(SentToken[1])
              /\ res.user = <<SentToken[1].payload>>

\* C7 witness: an update whose body fails validation, sent with an expired
\* token of the server, is answered by the verifier and not by validate.
C7_Witness ==
    /\ res.route \in {"PUT /teachers/:id", "PUT /students/:id"}
    /\ ~teacherUpdateValidationRules(res.req.body)
    /\ SentToken # <<>>
    /\ SentToken[1].sig = JwtSecret
    /\ now >= SentToken[1].payload.exp
    /\ res.status = 401
    /\ res.message = "Token inválido."

\* C8: token verification reads no stored state.  A token signed by login
\* passes the verifier on every protected request made before its exp,
\* and req.user is the id, email, role and name fixed at issuance, whatever
\* the collections hold by then.
C8_TokenVerificationStateless ==
    (IsProtected /\ SentToken # <<>>) =>
        LET t == SentToken[1] IN
        (t.sig = JwtSecret /\ now < t.payload.exp) =>
            /\ Len(res.ran) >= 2
            /\ res.message \notin {"Token não fornecido.", "Token inválido."}
            /\ res.user = <<t.payload>>

\* C8 witness: a read request passes the verifier with a token whose
\* principal is no longer stored as the token describes it (deleted,
\* renamed or deactivated since the login).
C8_Witness ==
    /\ res.route \in {"GET /teachers", "GET /students",
                      "GET /teachers/:id", "GET /students/:id"}
    /\ SentToken # <<>>
    /\ HandlerRan
    /\ res.user = <<SentToken[1].payload>>
    /\ ~\E d \in teachers \cup students :
          /\ IdToString(d.id) = SentToken[1].payload.id
          /\ d.name = SentToken[1].payload.name
          /\ d.email = SentToken[1].payload.email
          /\ d.isActive

\* The request in `res` carries a token that verifies and whose role is not
\* 'professor'.
ByNonProfessor ==
    /\ IsProtected
    /\ SentToken # <<>>
    /\ Verifies(SentToken[1])
    /\ SentToken[1].payload.role # "professor"

PostWriteRoutes == {"POST /posts", "PUT /posts/:id", "DELETE /posts/:id"}

\* C9, as claimed: every request to POST /posts, PUT /posts/:id or
\* DELETE /posts/:id with a valid token whose role is not 'professor' is
\* answered 401 'Acesso restrito a professores.' and no post is created,
\* changed or deleted.
C9_NonProfessorAlways401 ==
    [][(ByNonProfessor /\ res.route \in PostWriteRoutes)' =>
          /\ res'.status = 401
          /\ res'.message = "Acesso restrito a professores."
          /\ posts' = posts]_vars

\* C9, amended: such a request is answered 401 'Acesso restrito a
\* professores.' when its body passes the validation rules of the route
\* (DELETE has none) and 400 'Erro de validação.' when it does not; in
\* either case no post is created, changed or deleted.
C9_NonProfessorNeverWrites ==
    [][(ByNonProfessor /\ res.route \in PostWriteRoutes)' =>
          /\ posts' = posts
          /\ nextPostId' = nextPostId
          /\ IF res'.route = "DELETE /posts/:id"
                \/ postValidationRules(res'.req.body)
             THEN /\ res'.status = 401
                  /\ res'.message = "Acesso restrito a professores."
             ELSE /\ res'.status = 400
                  /\ res'.message = "Erro de validação."]_vars

\* C9 witness: a student's valid update of an existing post is answered
\* 401.
C9_Witness ==
    /\ res.route = "PUT /posts/:id"
    /\ ByNonProfessor
    /\ postValidationRules(res.req.body)
    /\ \E d \in posts :
          PostIdToString(d.id) = res.req.id /\ d.title # res.req.body.title
    /\ res.status = 401

AdminRoutes ==
    {"GET /teachers", "GET /teachers/:id", "POST /teachers",
     "PUT /teachers/:id", "DELETE /teachers/:id",
     "GET /students", "GET /students/:id", "POST /students",
     "PUT /students/:id", "DELETE /students/:id"}

\* The body passes the validation rules of the route (routes without rules
\* pass any body).
PassesRules(route, body) ==
    CASE route = "POST /teachers" -> teacherValidationRules(body)
      [] route = "PUT /teachers/:id" -> teacherUpdateValidationRules(body)
      [] route = "POST /students" -> studentValidationRules(body)
      [] route = "PUT /students/:id" -> studentUpdateValidationRules(body)
      [] OTHER -> TRUE

Listed == {res.out[1][i] : i \in DOMAIN res.out[1]}

\* C11: GET /posts answers a professor's token with every stored post and
\* any other valid token with exactly the posts whose isActive is true,
\* each once; whatever the role, the answer is 200, never 401 or 403.
C11_ListFilteredByRole ==
    (res.route = "GET /posts" /\ HandlerRan) =>
        /\ res.status = 200
        /\ Len(res.out[1]) = Cardinality(Listed)
        /\ Listed = IF res.user[1].role = "professor" THEN posts
                    ELSE {d \in posts : d.isActive = TRUE}

\* C11 witness: a student lists the posts while an inactive and an active
\* post are stored, and gets the active one only.
C11_Witness ==
    /\ res.route = "GET /posts"
    /\ HandlerRan
    /\ res.user[1].role = "aluno"
    /\ \E d \in posts : ~d.isActive
    /\ Listed # {}
    /\ Listed # posts

\* C12: for a token that is not a professor's, GET /posts/:id on a stored
\* inactive post gets the response an id of no post gets: 404 'Post não
\* encontrado.' and nothing else; a professor's token gets the post, 200.
C12_InactiveLooksAbsent ==
    (res.route = "GET /posts/:id" /\ HandlerRan /\ res.req.id # BadId) =>
        LET addressed == {d \in posts : PostIdToString(d.id) = res.req.id}
            absent == <<404, "Post não encontrado.", <<>>>>
            answer == <<res.status, res.message, res.out>>
        IN /\ addressed = {} => answer = absent
           /\ \A d \in addressed :
                 IF res.user[1].role # "professor" /\ ~d.isActive
                 THEN answer = absent
                 ELSE res.status = 200 /\ res.out = <<d>>

\* C12 witness: a student asks for a stored inactive post and is told
\* there is no such post.
C12_Witness ==
    /\ res.route = "GET /posts/:id"
    /\ HandlerRan
    /\ res.user[1].role = "aluno"
    /\ \E d \in posts : PostIdToString(d.id) = res.req.id /\ ~d.isActive
    /\ res.status = 404

\* C13: GET /posts/search called with a valid student ('aluno') token is
\* answered 401 'Acesso restrito a professores.' and carries no search
\* results.
C13_SearchDeniedToStudents ==
    (/\ res.route = "GET /posts/search"
     /\ SentToken # <<>>
     /\ Verifies(SentToken[1])
     /\ SentToken[1].payload.role = "aluno") =>
        /\ res.status = 401
        /\ res.message = "Acesso restrito a professores."
        /\ res.out = <<>>

\* The comment routes, the claims of the token of the request in `res`,
\* and the stored post and comment its path parameters address.
AddRoute == "POST /posts/:id/comments"

UpdateRoute == "PUT /posts/:id/comments/:commentId"

DeleteRoute == "DELETE /posts/:id/comments/:commentId"

Claims == res.user[1]

PostAt(id) == {d \in posts : PostIdToString(d.id) = id}

\* The post `after` is `before` with the comments replaced by `list`.
SameBut(before, after, list) == after = [before EXCEPT !.comments = list]

\* C14: an add-comment that reaches the handler (valid token of either
\* role, non-empty text) on the id of an existing post appends exactly one
\* comment at the end of that post's comments, with author and role taken
\* from the token and the text from the body, leaves the earlier comments,
\* the other fields and the other posts as they were, and answers 201 with
\* the updated post; on a well-formed id that resolves to no post it
\* answers 404 'Post não encontrado.' and stores nothing.
C14_AddCommentAppends ==
    [][(res.route = AddRoute /\ HandlerRan /\ res.req.id # BadId)' =>
          IF PostAt(res'.req.id) = {}
          THEN /\ res'.status = 404
               /\ res'.message = "Post não encontrado."
               /\ posts' = posts
          ELSE \E before \in PostAt(res'.req.id) :
               \E after \in posts' :
                  /\ res'.status = 201
                  /\ res'.out = <<after>>
                  /\ posts' = (posts \ {before}) \cup {after}
                  /\ Len(after.comments) = Len(before.comments) + 1
                  /\ SubSeq(after.comments, 1, Len(before.comments))
                        = before.comments
                  /\ SameBut(before, after, after.comments)
                  /\ LET added == after.comments[Len(after.comments)] IN
                        /\ added.author = Claims'.name
                        /\ added.role = Claims'.role
                        /\ added.comment = res'.req.body.comment
                        /\ \A d \in posts : \A i \in 1..Len(d.comments) :
                              d.comments[i].id # added.id]_vars

\* C14 witness: a student's comment was appended after a professor's on
\* the same post and the response is 201.
C14_Witness ==
    /\ res.route = AddRoute
    /\ res.status = 201
    /\ Claims.role = "aluno"
    /\ \E d \in PostAt(res.req.id) :
          /\ Len(d.comments) >= 2
          /\ d.comments[Len(d.comments) - 1].role = "professor"
          /\ d.comments[Len(d.comments)].role = "aluno"
          /\ d.comments[Len(d.comments)].author = Claims.name

\* The comments stored in the posts.
StoredComments == UNION {{d.comments[i] : i \in 1..Len(d.comments)} : d \in posts}

\* C15: in every reachable state the author and role of every stored
\* comment are the name and role of the token of the request that created
\* it; no operation stores an author or role supplied in a request body.
C15_AuthorAndRoleFromToken ==
    \A c \in StoredComments :
        /\ c.author = made[c.id].name
        /\ c.role = made[c.id].role

\* C15, amended: in every reachable state the author and role of every
\* comment stored by add-comment are the name and role of the token of
\* the request that added it, whatever author or role the body carried.
C15_AddedCommentsCarryTokenClaims ==
    \A c \in StoredComments :
        made[c.id].via = "addComment" =>
            /\ c.author = made[c.id].name
            /\ c.role = made[c.id].role

\* C15 witness: an add-comment whose body carried an author and a role of
\* its own was answered 201 and the stored comment bears the token's.
C15_Witness ==
    /\ res.route = AddRoute
    /\ res.status = 201
    /\ Has(res.req.body, "author")
    /\ res.req.body.author # Claims.name
    /\ res.req.body.role # Claims.role
    /\ \E d \in PostAt(res.req.id) :
          LET added == d.comments[Len(d.comments)] IN
          /\ made[added.id].via = "addComment"
          /\ added.author = Claims.name
          /\ added.role = Claims.role

\* The positions of the comment a request addresses in post d, and whether
\* the token's (name, role) is the comment's (author, role).
Addressed(d, commentId) ==
    {i \in 1..Len(d.comments) : CommentIdToString(d.comments[i].id) = commentId}

OwnedBy(c, claims) == c.author = claims.name /\ c.role = claims.role

\* C16: an update-comment that reaches the handler and addresses an
\* existing comment of an existing post succeeds (200, the comment bears
\* the new text) exactly when the token's (name, role) equals the
\* comment's stored (author, role); otherwise, a professor acting on a
\* student's comment included, it is answered 403 'Você só pode atualizar
\* seus próprios comentários.' and the posts are unchanged.
C16_UpdateOnlyByOwnPair ==
    [][(res.route = UpdateRoute /\ HandlerRan)' =>
          \A before \in PostAt(res'.req.id[1]) :
          \A i \in Addressed(before, res'.req.id[2]) :
             IF OwnedBy(before.comments[i], Claims')
             THEN /\ res'.status = 200
                  /\ \E after \in posts' :
                        /\ after.id = before.id
                        /\ after.comments[i].comment = res'.req.body.comment
             ELSE /\ res'.status = 403
                  /\ res'.message =
                        "Você só pode atualizar seus próprios comentários."
                  /\ posts' = posts]_vars

\* C16 witness: a professor's update of a student's comment was answered
\* 403 and the comment keeps its text.
C16_Witness ==
    /\ res.route = UpdateRoute
    /\ res.status = 403
    /\ Claims.role = "professor"
    /\ \E d \in PostAt(res.req.id[1]) :
       \E i \in Addressed(d, res.req.id[2]) :
          /\ d.comments[i].role = "aluno"
          /\ d.comments[i].comment # res.req.body.comment

\* C17: a comment's text is changed only by the principal that created
\* it: every successful update-comment on a comment that an add-comment
\* created is made with the token of the principal (same principal id)
\* whose add-comment created it.
C17_TextChangedOnlyByCreator ==
    [][(res.route = UpdateRoute /\ res.status = 200)' =>
          \A before \in PostAt(res'.req.id[1]) :
          \A i \in Addressed(before, res'.req.id[2]) :
             made[before.comments[i].id].via = "addComment" =>
                made[before.comments[i].id].by = Claims'.id]_vars

\* C18: a successful update-comment changes only the text of the
\* addressed comment: the stored post is the previous one with that text
\* replaced (same comment id, author, role and createdAt, same other
\* comments in the same order, same title, content, author, description
\* and active flag), and no other post changes.
C18_UpdateChangesTextOnly ==
    [][(res.route = UpdateRoute /\ res.status = 200)' =>
          \E before \in PostAt(res'.req.id[1]) :
          \E i \in Addressed(before, res'.req.id[2]) :
             posts' = (posts \ {before}) \cup
                        {[before EXCEPT
                            !.comments[i].comment = res'.req.body.comment]}]_vars

\* C18 witness: the text of one of several comments of a post was replaced
\* and the response is 200.
C18_Witness ==
    /\ res.route = UpdateRoute
    /\ res.status = 200
    /\ \E d \in PostAt(res.req.id[1]) :
       \E i \in Addressed(d, res.req.id[2]) :
          /\ Len(d.comments) >= 2
          /\ i < Len(d.comments)
          /\ d.comments[i].comment = res.req.body.comment
          /\ \E j \in 1..Len(d.comments) :
                d.comments[j].comment # res.req.body.comment

\* C19: a delete-comment that reaches the handler and addresses an
\* existing comment of an existing post is carried out (200, the comment
\* is gone) exactly when the token's (name, role) equals the comment's
\* (author, role), or the token's role is 'professor' and the comment's
\* role is 'aluno'; in every other case it is answered 403 'Você não tem
\* permissão para deletar este comentário.' and the posts are unchanged.
C19_DeleteByOwnerOrProfessorOverStudent ==
    [][(res.route = DeleteRoute /\ HandlerRan)' =>
          \A before \in PostAt(res'.req.id[1]) :
          \A i \in Addressed(before, res'.req.id[2]) :
             IF \/ OwnedBy(before.comments[i], Claims')
                \/ /\ Claims'.role = "professor"
                   /\ before.comments[i].role = "aluno"
             THEN /\ res'.status = 200
                  /\ \A c \in StoredComments' : c.id # before.comments[i].id
             ELSE /\ res'.status = 403
                  /\ res'.message =
                        "Você não tem permissão para deletar este comentário."
                  /\ posts' = posts]_vars

\* C19 witness: a professor's delete of another professor's comment was
\* answered 403 and the comment is still in the post.
C19_Witness ==
    /\ res.route = DeleteRoute
    /\ res.status = 403
    /\ Claims.role = "professor"
    /\ \E d \in PostAt(res.req.id[1]) :
       \E i \in Addressed(d, res.req.id[2]) :
          /\ d.comments[i].role = "professor"
          /\ d.comments[i].author # Claims.name

\* The sequence `list` without its i-th element.
Without(list, i) == SubSeq(list, 1, i - 1) \o SubSeq(list, i + 1, Len(list))

\* C20: a successful delete-comment removes exactly the addressed comment:
\* the stored post is the previous one whose comments are the previous
\* sequence without that element, the others as they were and in the same
\* order, no other post changes, and the response is 200 'Comentário
\* deletado com sucesso.' with that updated post.
C20_DeleteRemovesExactlyOne ==
    [][(res.route = DeleteRoute /\ res.status = 200)' =>
          \E before \in PostAt(res'.req.id[1]) :
          \E i \in Addressed(before, res'.req.id[2]) :
             LET after == [before EXCEPT !.comments = Without(@, i)] IN
             /\ posts' = (posts \ {before}) \cup {after}
             /\ res'.message = "Comentário deletado com sucesso."
             /\ res'.out = <<after>>]_vars

\* C20 witness: a comment that was not the last of its post was deleted
\* and two comments of different authors or roles remain.
C20_Witness ==
    /\ res.route = DeleteRoute
    /\ res.status = 200
    /\ res.out # <<>>
    /\ LET d == res.out[1] IN
          /\ d \in posts
          /\ Len(d.comments) = 2
          /\ d.comments[1] # d.comments[2]
          /\ \E n \in 1..MaxComments :
                /\ CommentIdToString(n) = res.req.id[2]
                /\ n < d.comments[2].id
          /\ \/ d.comments[1].author # d.comments[2].author
             \/ d.comments[1].role # d.comments[2].role

\* C21: a delete-comment that reaches the handler with the id of an
\* existing post and a comment id that is not among that post's comments
\* is answered 404 'Comentário não encontrado.' whatever the token's name
\* and role, and leaves the posts unchanged, so that the same call
\* repeated meets the same state and the same answer.
C21_MissingCommentAlways404 ==
    [][(res.route = DeleteRoute /\ HandlerRan)' =>
          \A before \in PostAt(res'.req.id[1]) :
             Addressed(before, res'.req.id[2]) = {} =>
                /\ res'.status = 404
                /\ res'.message = "Comentário não encontrado."
                /\ posts' = posts
                /\ \A after \in posts' :
                      PostIdToString(after.id) = res'.req.id[1] =>
                         Addressed(after, res'.req.id[2]) = {}]_vars

\* C21 witness: a student's delete of a comment id that is not in a post
\* holding other comments was answered 404.
C21_Witness ==
    /\ res.route = DeleteRoute
    /\ res.status = 404
    /\ res.message = "Comentário não encontrado."
    /\ Claims.role = "aluno"
    /\ \E d \in PostAt(res.req.id[1]) :
          /\ d.comments # <<>>
          /\ Addressed(d, res.req.id[2]) = {}

\* C22: PUT /posts/:id never changes a post's comments: whatever the body
\* (comments absent, empty or not empty) and the token, every post stored
\* before the request is stored after it with the same comments, and no
\* post appears or disappears.
C22_UpdatePostKeepsComments ==
    [][(res.route = "PUT /posts/:id")' =>
          /\ {d.id : d \in posts'} = {d.id : d \in posts}
          /\ \A d \in posts : \A e \in posts' :
                e.id = d.id => e.comments = d.comments]_vars

\* C22 witness: a professor's update whose body carried an empty comments
\* array was answered 200 and the post still holds its comment.
C22_Witness ==
    /\ res.route = "PUT /posts/:id"
    /\ res.status = 200
    /\ Has(res.req.body, "comments")
    /\ res.req.body.comments = <<>>
    /\ \E d \in posts :
          /\ PostIdToString(d.id) = res.req.id
          /\ d.title = res.req.body.title
          /\ d.comments # <<>>
          /\ res.out = <<d>>

\* The emails held by the principals of both collections.
HeldEmails == {d.email : d \in teachers \cup students}

\* C23: a create-Teacher or create-Student by a professor, with a body
\* that passes validation and an email already held by a Teacher or a
\* Student, is rejected with 400 'Email já cadastrado.' and stores
\* nothing, so that a create never makes two principals hold one email.
C23_CreateRejectsHeldEmail ==
    [][(/\ res.route \in {"POST /teachers", "POST /students"}
        /\ HandlerRan
        /\ Claims.role = "professor")' =>
          \/ res'.req.body.email \notin HeldEmails
          \/ /\ res'.status = 400
             /\ res'.message = "Email já cadastrado."
             /\ teachers' = teachers
             /\ students' = students]_vars

\* The record a PUT /teachers/:id or PUT /students/:id addresses.
Updated ==
    IF res.route = "PUT /teachers/:id"
    THEN {d \in teachers : IdToString(d.id) = res.req.id}
    ELSE {d \in students : IdToString(d.id) = res.req.id}

\* C24: an update of an existing Teacher or Student by a professor, with
\* a body that passes validation, is rejected with 400 'Email não pode
\* ser alterado.' and changes nothing when the body carries an email
\* different from the stored one, and is accepted (200, the stored email
\* kept) when the body carries the same email or none.
C24_EmailImmutable ==
    [][(/\ res.route \in {"PUT /teachers/:id", "PUT /students/:id"}
        /\ HandlerRan
        /\ Claims.role = "professor")' =>
          \A before \in {d \in IF res'.route = "PUT /teachers/:id"
                               THEN teachers ELSE students :
                            IdToString(d.id) = res'.req.id} :
             IF Has(res'.req.body, "email")
                /\ res'.req.body.email # before.email
             THEN /\ res'.status = 400
                  /\ res'.message = "Email não pode ser alterado."
                  /\ teachers' = teachers
                  /\ students' = students
             ELSE /\ res'.status = 200
                  /\ \E after \in Updated' :
                        after.email = before.email]_vars

\* The passwords and password hashes of the stored principals, and a
\* principal as a response may show it.
StoredSecrets ==
    {d.password : d \in teachers \cup students}
        \cup {p \in Passwords :
                \E d \in teachers \cup students : BcryptCompare(p, d.password)}

Discreet(shown) ==
    /\ "password" \notin DOMAIN shown
    /\ DOMAIN shown \subseteq
          {"id", "name", "email", "role", "isActive", "iat", "exp"}
    /\ \A f \in DOMAIN shown \cap {"name", "email", "role"} :
          shown[f] \notin StoredSecrets

ListRoutes == {"GET /teachers", "GET /students"}

RecordRoutes ==
    {"GET /teachers/:id", "POST /teachers", "PUT /teachers/:id",
     "GET /students/:id", "POST /students", "PUT /students/:id"}

\* C25: no response contains a principal's password or password hash:
\* the user summary and the token claims of a login response, every
\* record of a list response and the record of a read, create or update
\* response of the Teacher and Student endpoints have no password field
\* and no field holding a stored password or hash.
C25_NoPasswordInResponses ==
    /\ (res.route = "POST /login" /\ res.out # <<>>) =>
          /\ DOMAIN res.out[1] = {"token", "user"}
          /\ Discreet(res.out[1].user)
          /\ Discreet(res.out[1].token.payload)
    /\ (res.route \in ListRoutes /\ res.out # <<>>) =>
          \A shown \in res.out[1] : Discreet(shown)
    /\ (res.route \in RecordRoutes /\ res.out # <<>>) =>
          Discreet(res.out[1])

\* C25 witness: a student was created with a password, its hash is
\* stored, and the 201 response shows the record without it.
C25_Witness ==
    /\ res.route = "POST /students"
    /\ res.status = 201
    /\ \E d \in students :
          /\ d.email = res.req.body.email
          /\ BcryptCompare(res.req.body.password, d.password)
          /\ res.out[1].email = d.email
          /\ Discreet(res.out[1])

\* C27: an update-comment or delete-comment that reaches the handler with
\* a well-formed post id decides in the order post, comment, ownership:
\* 404 'Post não encontrado.' when no post has the id, else 404
\* 'Comentário não encontrado.' when the comment id is not in that post,
\* and 200 or 403 only when both exist; a comment id that is not in the
\* post is never answered 403, whoever asks.
C27_PostThenCommentThenOwnership ==
    [][(/\ res.route \in {UpdateRoute, DeleteRoute}
        /\ HandlerRan
        /\ res.req.id[1] # BadId)' =>
          IF PostAt(res'.req.id[1]) = {}
          THEN /\ res'.status = 404
               /\ res'.message = "Post não encontrado."
          ELSE \A before \in PostAt(res'.req.id[1]) :
                  IF Addressed(before, res'.req.id[2]) = {}
                  THEN /\ res'.status = 404
                       /\ res'.message = "Comentário não encontrado."
                  ELSE res'.status \in {200, 403}]_vars

\* C27 witness: a student's update of a comment id that is not in the
\* addressed post, though another post holds that comment and it is not
\* the student's, was answered 404 'Comentário não encontrado.'.
C27_Witness ==
    /\ res.route = UpdateRoute
    /\ res.status = 404
    /\ res.message = "Comentário não encontrado."
    /\ Claims.role = "aluno"
    /\ \E c \in StoredComments :
          /\ CommentIdToString(c.id) = res.req.id[2]
          /\ ~OwnedBy(c, Claims)

\* The posts a response shows.
ShownPosts ==
    IF res.out = <<>> THEN {}
    ELSE IF res.route \in {"GET /posts", "GET /posts/search"}
    THEN {res.out[1][i] : i \in 1..Len(res.out[1])}
    ELSE IF res.route \in {"GET /posts/:id", AddRoute, UpdateRoute, DeleteRoute}
    THEN {res.out[1]}
    ELSE {}

\* C28: no response to a request carrying a non-professor token contains
\* an inactive post, be it a list, a read, a search result or the post
\* returned by add-comment, update-comment or delete-comment.
C28_NoInactivePostToNonProfessor ==
    ByNonProfessor => \A d \in ShownPosts : d.isActive

\* A post without its comments, and the comments of role professor that a
\* set of posts holds.
Bare(d) == [d EXCEPT !.comments = <<>>]

ProfessorComments(stored) ==
    UNION {{d.comments[i] : i \in {k \in 1..Len(d.comments) :
                                     d.comments[k].role = "professor"}} :
             d \in stored}

\* C29: a request carrying a valid non-professor token changes the store
\* through add-comment, update-comment and delete-comment only: it
\* creates and deletes no post, changes no post's title, content, author,
\* description or active flag, changes and removes no comment of a
\* professor, and creates, changes and deletes no Teacher or Student.
C29_NonProfessorOnlyComments ==
    [][ByNonProfessor' =>
          /\ teachers' = teachers
          /\ students' = students
          /\ nextId' = nextId
          /\ {Bare(d) : d \in posts'} = {Bare(d) : d \in posts}
          /\ ProfessorComments(posts) \subseteq ProfessorComments(posts')
          /\ posts' # posts =>
                res'.route \in {AddRoute, UpdateRoute, DeleteRoute}]_vars

\* C29 witness: the student's own comment was deleted by the student
\* (200) and the professor's comment is still in the post.
C29_Witness ==
    /\ res.route = DeleteRoute
    /\ ByNonProfessor
    /\ res.status = 200
    /\ ProfessorComments(posts) # {}
    /\ \A c \in StoredComments : CommentIdToString(c.id) # res.req.id[2]

\* The statuses of failure, and a step that answers a request.
FailureStatuses == {400, 401, 403, 404, 500}

Answers == res = NoRes /\ res' # NoRes

\* C30: every request gets one response, whose status is one of 200,
\* 201, 400, 401, 403, 404 and 500, and a request answered 400, 401,
\* 403, 404 or 500 leaves the posts with their comments, the Teachers
\* and the Students exactly as they were before it.
C30_FailuresChangeNothing ==
    [][Answers =>
          /\ res'.status \in {200, 201} \cup FailureStatuses
          /\ res'.status \in FailureStatuses =>
                /\ posts' = posts
                /\ teachers' = teachers
                /\ students' = students]_vars

\* C30 witness: a professor's update of an existing student that carried
\* a new name together with another email was answered 400 and the
\* student keeps the old name.
C30_Witness ==
    /\ res.route = "PUT /students/:id"
    /\ res.status = 400
    /\ res.message = "Email não pode ser alterado."
    /\ Has(res.req.body, "name")
    /\ \E d \in students :
          /\ IdToString(d.id) = res.req.id
          /\ d.name # res.req.body.name
          /\ d.email # res.req.body.email

====
